---- MODULE Spec2Model ----
(***************************************************************************)
(* Model of the TamagoCLI pet simulation (src/tamagocli/models/pet.py).    *)
(*                                                                         *)
(* Time is counted in ticks of one second (TicksPerSecond == 1); the wall  *)
(* clock `now` is the value datetime.now() returns.  The four float        *)
(* accumulators are kept as fixed-point numbers in tenths of a unit        *)
(* (AccOne == 10): with whole seconds and trait multipliers that are       *)
(* multiples of 0.1, every increment the code computes is a whole number   *)
(* of tenths.  Binary floating point enters where it can change a result:  *)
(* see Settle.                                                             *)
(***************************************************************************)
EXTENDS Integers, Sequences, FiniteSets, TLC

VARIABLES pet, now, calls, op, events, result, snap, rival, engine, save_file, added

vars == <<pet, now, calls, op, events, result, snap, rival, engine, save_file, added>>

\* ------------------------------------------------------------------ bounds
\* The wall clock is followed up to MaxTime ticks.
MaxTime == 3

\* At most MaxCalls calls of update() and the actions are followed.
MaxCalls == 2

\* ----------------------------------------------------- program constants
TicksPerSecond == 1
AccOne == 10
BOUNCE_LEFT_EDGE == 10
BOUNCE_RIGHT_EDGE == 90
\* eating lasts 3.0 seconds
EatingTicks == 3
\* Optional[datetime]: None is the empty sequence, a time t is <<t>>.
None == <<>>
Some(t) == <<t>>

PetType == {"CAT", "DOG", "DRAGON", "BUNNY", "ALIEN"}

PetState == {"IDLE", "HAPPY", "HUNGRY", "EATING", "SLEEPING", "SAD", "SICK", "DEAD"}

\* Trait multipliers, in tenths (1.2 is 12).
\* Traits in which the DOG gets hungry no faster than the CAT.
Traits_dog_hungry_as_cat(t) ==
  CASE t = "CAT"    -> [hunger_decay |-> 10, happiness_decay |-> 8,  energy_decay |-> 7,  food_efficiency |-> 12]
    [] t = "DOG"    -> [hunger_decay |-> 10, happiness_decay |-> 15, energy_decay |-> 10, food_efficiency |-> 10]
    [] t = "DRAGON" -> [hunger_decay |-> 15, happiness_decay |-> 9,  energy_decay |-> 8,  food_efficiency |-> 8]
    [] t = "BUNNY"  -> [hunger_decay |-> 8,  happiness_decay |-> 10, energy_decay |-> 9,  food_efficiency |-> 15]
    [] t = "ALIEN"  -> [hunger_decay |-> 5,  happiness_decay |-> 12, energy_decay |-> 6,  food_efficiency |-> 20]

Traits(t) ==
  CASE t = "CAT"    -> [hunger_decay |-> 10, happiness_decay |-> 8,  energy_decay |-> 7,  food_efficiency |-> 12]
    [] t = "DOG"    -> [hunger_decay |-> 12, happiness_decay |-> 15, energy_decay |-> 10, food_efficiency |-> 10]
    [] t = "DRAGON" -> [hunger_decay |-> 15, happiness_decay |-> 9,  energy_decay |-> 8,  food_efficiency |-> 8]
    [] t = "BUNNY"  -> [hunger_decay |-> 8,  happiness_decay |-> 10, energy_decay |-> 9,  food_efficiency |-> 15]
    [] t = "ALIEN"  -> [hunger_decay |-> 5,  happiness_decay |-> 12, energy_decay |-> 6,  food_efficiency |-> 20]

traits(p) == Traits(p.pet_type)

Min(a, b) == IF a < b THEN a ELSE b
Max(a, b) == IF a > b THEN a ELSE b

\* PetStats.__post_init__: the four bounded stats are clamped into [0,100].
Clamp(x) == Max(0, Min(100, x))

ClampStats(p) ==
  [p EXCEPT !.hunger = Clamp(p.hunger), !.happiness = Clamp(p.happiness),
            !.energy = Clamp(p.energy), !.health = Clamp(p.health)]

\* Pet(name, pet_type) with every default of the dataclass, created at time t.
NewPet(ty, t) ==
  [name |-> "Pet", pet_type |-> ty,
   hunger |-> 100, happiness |-> 100, energy |-> 100, health |-> 100,
   age |-> 0, level |-> 1,
   state |-> "IDLE", position |-> 50, direction |-> 1,
   created_at |-> t, last_update |-> t, eating_started_at |-> None,
   accumulated_damage |-> 0, accumulated_hunger_decay |-> 0,
   accumulated_happiness_decay |-> 0, accumulated_energy_decay |-> 0]

is_alive(p) == p.health > 0

\* ------------------------------------------------------ Pet._update_state
\* Pet.is_alive inside _update_state; kept apart so that the death check
\* can be varied on its own.
StateAlive(p) == p.health > 0

\* _update_state with the protected states tested before death.
update_state_protected_first(p) ==
  IF p.state \in {"EATING", "SLEEPING"} THEN p
  ELSE IF ~StateAlive(p) THEN [p EXCEPT !.state = "DEAD"]
  ELSE IF p.health < 30 THEN [p EXCEPT !.state = "SICK"]
  ELSE IF p.hunger < 20 THEN [p EXCEPT !.state = "HUNGRY"]
  ELSE IF p.happiness < 30 THEN [p EXCEPT !.state = "SAD"]
  ELSE IF p.happiness > 80 /\ p.energy > 60 THEN [p EXCEPT !.state = "HAPPY"]
  ELSE [p EXCEPT !.state = "IDLE"]

\* The mood priorities with hunger looked at before health.
update_state_hunger_first(p) ==
  IF ~StateAlive(p) THEN [p EXCEPT !.state = "DEAD"]
  ELSE IF p.state \in {"EATING", "SLEEPING"} THEN p
  ELSE IF p.hunger < 20 THEN [p EXCEPT !.state = "HUNGRY"]
  ELSE IF p.health < 30 THEN [p EXCEPT !.state = "SICK"]
  ELSE IF p.happiness < 30 THEN [p EXCEPT !.state = "SAD"]
  ELSE IF p.happiness > 80 /\ p.energy > 60 THEN [p EXCEPT !.state = "HAPPY"]
  ELSE [p EXCEPT !.state = "IDLE"]

update_state(p) ==
  IF ~StateAlive(p) THEN [p EXCEPT !.state = "DEAD"]
  ELSE IF p.state \in {"EATING", "SLEEPING"} THEN p
  ELSE IF p.health < 30 THEN [p EXCEPT !.state = "SICK"]
  ELSE IF p.hunger < 20 THEN [p EXCEPT !.state = "HUNGRY"]
  ELSE IF p.happiness < 30 THEN [p EXCEPT !.state = "SAD"]
  ELSE IF p.happiness > 80 /\ p.energy > 60 THEN [p EXCEPT !.state = "HAPPY"]
  ELSE [p EXCEPT !.state = "IDLE"]

\* ------------------------------------------------------------- Pet._move
\* flip: random.random() < 0.1; step: random.randint(0, 2).
move_through_the_edge(p, flip, step) ==
  IF p.state \in {"SLEEPING", "DEAD", "EATING"} THEN p
  ELSE
    LET d == IF flip THEN -(p.direction) ELSE p.direction
    IN  [p EXCEPT !.position = p.position + d * step, !.direction = d]

move(p, flip, step) ==
  IF p.state \in {"SLEEPING", "DEAD", "EATING"} THEN p
  ELSE
    LET d   == IF flip THEN -(p.direction) ELSE p.direction
        pos == p.position + d * step
    IN  IF pos <= BOUNCE_LEFT_EDGE
          THEN [p EXCEPT !.position = BOUNCE_LEFT_EDGE, !.direction = 1]
        ELSE IF pos >= BOUNCE_RIGHT_EDGE
          THEN [p EXCEPT !.position = BOUNCE_RIGHT_EDGE, !.direction = -1]
        ELSE [p EXCEPT !.position = pos, !.direction = d]

\* ------------------------------------------------------------ Pet.update
\* An eating timer that is over as soon as it is looked at.
EatingOver_immediately(p, t) == TRUE

\* Eating is over at time t: 3.0 s since eating_started_at, or no timestamp
\* at all (old save).
EatingOver(p, t) ==
  IF p.eating_started_at # None
    THEN t - p.eating_started_at[1] >= EatingTicks
    ELSE TRUE

\* The eating timer without the branch for a record that has no timestamp.
FinishEating_needs_timestamp(p, t) ==
  IF p.state = "EATING" /\ p.eating_started_at # None
       /\ t - p.eating_started_at[1] >= EatingTicks
    THEN [pet |-> [p EXCEPT !.state = "IDLE", !.eating_started_at = None],
          events |-> <<"finished eating">>]
    ELSE [pet |-> p, events |-> <<>>]

\* update(), step 3: resolve the eating timer.
FinishEating(p, t) ==
  IF p.state = "EATING" /\ EatingOver(p, t)
    THEN [pet |-> [p EXCEPT !.state = "IDLE", !.eating_started_at = None],
          events |-> <<"finished eating">>]
    ELSE [pet |-> p, events |-> <<>>]

\* Decay that counts calls instead of elapsed time: every update() accrues
\* one second's worth.
Accrual_per_call(dt, base, mult10) == (base \div 10) * mult10

\* decay_rate * base * multiplier for time_delta dt (ticks), in tenths:
\* dt/10 * base * (mult10/10) = dt * (base/10) * mult10 / 10.
Accrual(dt, base, mult10) == dt * (base \div 10) * mult10

\* The four accumulators.
AccNames == {"hunger", "happiness", "energy", "damage"}

\* An accumulator that applies a started unit in full: whatever it holds is
\* rounded up and taken.
Settle_rounds_up(prev, inc, low) ==
  [whole |-> (prev + inc + AccOne - 1) \div AccOne, rest |-> 0]

\* An accumulator from which the applied integer part is not taken off.
Settle_never_emptied(prev, inc, low) ==
  [whole |-> (prev + inc) \div AccOne, rest |-> prev + inc]

\* An accumulator that forgets the fraction left after the integer part has
\* been applied.
Settle_drops_fraction(prev, inc, low) ==
  [whole |-> (prev + inc) \div AccOne, rest |-> 0]

\* `acc += inc; if acc >= 1.0: n = int(acc); stat -= n; acc -= n`, for the
\* stored accumulator prev and the exact increment inc (tenths).  The
\* code adds binary floating-point numbers, so a sum whose exact value is a
\* whole number k >= 1 comes out either at k or just below it: int() then
\* gives k or k - 1, and the accumulator keeps 0 or a value just below 1.0,
\* which is written AccOne here.  low says the sum came out just below.
\* A sum that is not a whole number is floored as in exact arithmetic, and
\* an accumulator to which nothing was added keeps its value (below 1.0).
Settle(prev, inc, low) ==
  LET sum == prev + inc
      k   == sum \div AccOne
      n   == IF inc = 0 THEN 0
             ELSE IF sum % AccOne = 0 /\ k >= 1 /\ low THEN k - 1
             ELSE k
  IN  [whole |-> n, rest |-> sum - n * AccOne]

\* The accumulated sum is a whole number >= 1: its floating-point value may
\* fall on either side.
Tie(prev, inc) == inc > 0 /\ (prev + inc) % AccOne = 0 /\ prev + inc >= AccOne

HungerAccrual(p, dt) == Accrual(dt, 50, traits(p).hunger_decay)
HappinessAccrual(p, dt) == Accrual(dt, 30, traits(p).happiness_decay)
\* Energy doesn't decay while sleeping.
EnergyAccrual(p, dt) ==
  IF p.state # "SLEEPING" THEN Accrual(dt, 20, traits(p).energy_decay) ELSE 0

\* update(), step 4a: accumulate and apply hunger/happiness/energy decay.
Decay(p, dt, low) ==
  LET h == Settle(p.accumulated_hunger_decay, HungerAccrual(p, dt), "hunger" \in low)
      a == Settle(p.accumulated_happiness_decay, HappinessAccrual(p, dt), "happiness" \in low)
      e == Settle(p.accumulated_energy_decay, EnergyAccrual(p, dt), "energy" \in low)
  IN  [p EXCEPT !.hunger = p.hunger - h.whole,
                !.accumulated_hunger_decay = h.rest,
                !.happiness = p.happiness - a.whole,
                !.accumulated_happiness_decay = a.rest,
                !.energy = p.energy - e.whole,
                !.accumulated_energy_decay = e.rest]

\* The three damage sources without stacking: only the strongest counts.
DamageAccrual_strongest_only(p, dt) ==
  IF p.hunger <= 0 THEN Accrual(dt, 30, 10)
  ELSE IF p.energy <= 0 THEN Accrual(dt, 20, 10)
  ELSE IF p.happiness <= 20 THEN Accrual(dt, 10, 10)
  ELSE 0

\* Damage accrued in this update, in tenths: decay_rate * 30 while
\* hunger <= 0, decay_rate * 10 while happiness <= 20, decay_rate * 20 while
\* energy <= 0.
DamageAccrual(p, dt) ==
    (IF p.hunger <= 0 THEN Accrual(dt, 30, 10) ELSE 0)
  + (IF p.happiness <= 20 THEN Accrual(dt, 10, 10) ELSE 0)
  + (IF p.energy <= 0 THEN Accrual(dt, 20, 10) ELSE 0)

\* Health consequences that count one second for every call, however much
\* time has passed.
\* The names given to pets here, and the words "starving" and "exhausted"
\* as far as a name contains them.
PetNames == {"Pet", "starving Sam"}

Mentions(name) == IF name = "starving Sam" THEN {"starving"} ELSE {}

\* any("starving" in e or "exhausted" in e for e in events): every event is
\* a text that begins with the pet's name, and the starving and exhausted
\* events contain their word.
Mentioned(evs, name) ==
  \E i \in DOMAIN evs :
     evs[i] \in {"starving", "exhausted"} \/ Mentions(name) # {}

\* Damage that turns into recovery: a pet to which no damage accrues gains
\* 1 health.
Damage_or_recovery(p, dt, low, said) ==
  LET d   == Settle(p.accumulated_damage, DamageAccrual(p, dt), "damage" \in low)
      ev1 == IF p.hunger <= 0 /\ p.hunger = 0 THEN <<"starving">> ELSE <<>>
      ev2 == IF p.energy <= 0 /\ p.energy = 0 THEN <<"exhausted">> ELSE <<>>
      ev3 == IF d.whole > 0 /\ ~Mentioned(said \o ev1 \o ev2, p.name)
               THEN <<"suffering">> ELSE <<>>
      gain == IF DamageAccrual(p, dt) = 0 /\ dt > 0 THEN 1 ELSE 0
  IN  [pet |-> [p EXCEPT !.health = p.health - d.whole + gain,
                         !.accumulated_damage = d.rest],
       events |-> ev1 \o ev2 \o ev3]

\* Damage that is applied without a suffering message.
Damage_unannounced(p, dt, low, said) ==
  LET d   == Settle(p.accumulated_damage, DamageAccrual(p, dt), "damage" \in low)
      ev1 == IF p.hunger <= 0 /\ p.hunger = 0 THEN <<"starving">> ELSE <<>>
      ev2 == IF p.energy <= 0 /\ p.energy = 0 THEN <<"exhausted">> ELSE <<>>
  IN  [pet |-> [p EXCEPT !.health = p.health - d.whole,
                         !.accumulated_damage = d.rest],
       events |-> ev1 \o ev2]

Damage_once_per_call(p, dt, low, said) ==
  LET d   == Settle(p.accumulated_damage, DamageAccrual(p, Min(dt, 1)), "damage" \in low)
      ev1 == IF p.hunger <= 0 /\ p.hunger = 0 THEN <<"starving">> ELSE <<>>
      ev2 == IF p.energy <= 0 /\ p.energy = 0 THEN <<"exhausted">> ELSE <<>>
      ev3 == IF d.whole > 0 /\ ~Mentioned(said \o ev1 \o ev2, p.name)
               THEN <<"suffering">> ELSE <<>>
  IN  [pet |-> [p EXCEPT !.health = p.health - d.whole,
                         !.accumulated_damage = d.rest],
       events |-> ev1 \o ev2 \o ev3]

\* update(), step 4b: health consequences and their messages; said are the
\* events of this call so far.
Damage(p, dt, low, said) ==
  LET d   == Settle(p.accumulated_damage, DamageAccrual(p, dt), "damage" \in low)
      ev1 == IF p.hunger <= 0 /\ p.hunger = 0 THEN <<"starving">> ELSE <<>>
      ev2 == IF p.energy <= 0 /\ p.energy = 0 THEN <<"exhausted">> ELSE <<>>
      ev3 == IF d.whole > 0 /\ ~Mentioned(said \o ev1 \o ev2, p.name)
               THEN <<"suffering">> ELSE <<>>
  IN  [pet |-> [p EXCEPT !.health = p.health - d.whole,
                         !.accumulated_damage = d.rest],
       events |-> ev1 \o ev2 \o ev3]

\* Sleeping regeneration of 20 per update.
SleepRegen_twenty(p) ==
  IF p.state = "SLEEPING"
    THEN LET e == Min(100, p.energy + 20)
         IN  IF e >= 100
               THEN [pet |-> [p EXCEPT !.energy = e, !.state = "IDLE"],
                     events |-> <<"woke up refreshed">>]
               ELSE [pet |-> [p EXCEPT !.energy = e], events |-> <<>>]
    ELSE [pet |-> p, events |-> <<>>]

\* Sleeping regeneration that never wakes the pet.
SleepRegen_never_wakes(p) ==
  IF p.state = "SLEEPING"
    THEN [pet |-> [p EXCEPT !.energy = Min(100, p.energy + 10)], events |-> <<>>]
    ELSE [pet |-> p, events |-> <<>>]

\* update(), step 5: energy regeneration while sleeping and auto wake-up.
SleepRegen(p) ==
  IF p.state = "SLEEPING"
    THEN LET e == Min(100, p.energy + 10)
         IN  IF e >= 100
               THEN [pet |-> [p EXCEPT !.energy = e, !.state = "IDLE"],
                     events |-> <<"woke up refreshed">>]
               ELSE [pet |-> [p EXCEPT !.energy = e], events |-> <<>>]
    ELSE [pet |-> p, events |-> <<>>]

\* update() on a live pet at clock value t.
update_alive(p, t, flip, step, low) ==
  LET dt == t - p.last_update
      p1 == [p EXCEPT !.last_update = t,
                      !.age = (t - p.created_at) \div TicksPerSecond]
      r3 == FinishEating(p1, t)
      p4 == Decay(r3.pet, dt, low)
      r4 == Damage(p4, dt, low, r3.events)
      r5 == SleepRegen(r4.pet)
      p6 == ClampStats(r5.pet)
      p7 == update_state(p6)
      p8 == move(p7, flip, step)
  IN  [pet |-> p8, events |-> r3.events \o r4.events \o r5.events]

\* update() without the early return for a dead pet.
update_no_dead_return(p, t, flip, step, low) == update_alive(p, t, flip, step, low)

update(p, t, flip, step, low) ==
  IF ~is_alive(p)
    THEN [pet |-> [p EXCEPT !.state = "DEAD"], events |-> <<>>]
    ELSE update_alive(p, t, flip, step, low)

\* The accumulators whose sum in update() at time t is a whole number, so
\* that floating-point rounding decides on which side of it the sum falls:
\* first those of the three decays, then, given how these fell (low3), the
\* damage accumulator.
DecayTies(p, t) ==
  LET dt == t - p.last_update
      q  == FinishEating(p, t).pet
  IN  {a \in {"hunger"} : Tie(q.accumulated_hunger_decay, HungerAccrual(q, dt))}
      \cup {a \in {"happiness"} : Tie(q.accumulated_happiness_decay, HappinessAccrual(q, dt))}
      \cup {a \in {"energy"} : Tie(q.accumulated_energy_decay, EnergyAccrual(q, dt))}

DamageTies(p, t, low3) ==
  LET dt == t - p.last_update
      q  == Decay(FinishEating(p, t).pet, dt, low3)
  IN  {a \in {"damage"} : Tie(q.accumulated_damage, DamageAccrual(q, dt))}

Roundings(p, t) ==
  IF ~is_alive(p) THEN {{}}
  ELSE UNION {{low3 \cup lowd : lowd \in SUBSET DamageTies(p, t, low3)} :
                low3 \in SUBSET DecayTies(p, t)}

\* -------------------------------------------------------------- Pet.feed
\* feed() without the cap at 100.
feed_uncapped(p, t) ==
  IF ~is_alive(p) THEN [pet |-> p, result |-> "Cannot feed a dead pet"]
  ELSE IF p.state = "EATING" THEN [pet |-> p, result |-> "already eating"]
  ELSE IF p.hunger >= 95 THEN [pet |-> p, result |-> "not hungry"]
  ELSE LET food_value == (30 * traits(p).food_efficiency) \div 10
       IN  [pet |-> [p EXCEPT !.state = "EATING",
                              !.eating_started_at = Some(t),
                              !.hunger = p.hunger + food_value,
                              !.happiness = p.happiness + 10],
            result |-> "Fed"]

\* feed() that also takes the time of the meal as the time of the last
\* update.
feed_restarting_clock(p, t) ==
  IF ~is_alive(p) THEN [pet |-> p, result |-> "Cannot feed a dead pet"]
  ELSE IF p.state = "EATING" THEN [pet |-> p, result |-> "already eating"]
  ELSE IF p.hunger >= 95 THEN [pet |-> p, result |-> "not hungry"]
  ELSE LET food_value == (30 * traits(p).food_efficiency) \div 10
       IN  [pet |-> [p EXCEPT !.state = "EATING",
                              !.eating_started_at = Some(t),
                              !.last_update = t,
                              !.hunger = Min(100, p.hunger + food_value),
                              !.happiness = Min(100, p.happiness + 10)],
            result |-> "Fed"]

feed(p, t) ==
  IF ~is_alive(p) THEN [pet |-> p, result |-> "Cannot feed a dead pet"]
  ELSE IF p.state = "EATING" THEN [pet |-> p, result |-> "already eating"]
  ELSE IF p.hunger >= 95 THEN [pet |-> p, result |-> "not hungry"]
  ELSE LET food_value == (30 * traits(p).food_efficiency) \div 10
       IN  [pet |-> [p EXCEPT !.state = "EATING",
                              !.eating_started_at = Some(t),
                              !.hunger = Min(100, p.hunger + food_value),
                              !.happiness = Min(100, p.happiness + 10)],
            result |-> "Fed"]

\* -------------------------------------------------------------- Pet.play
\* play() without the check for a tired pet.
play_however_tired(p) ==
  IF ~is_alive(p) THEN [pet |-> p, result |-> "Cannot play with a dead pet"]
  ELSE IF p.state = "EATING" THEN [pet |-> p, result |-> "busy eating"]
  ELSE IF p.state = "SLEEPING" THEN [pet |-> p, result |-> "is sleeping"]
  ELSE [pet |-> [p EXCEPT !.happiness = Min(100, p.happiness + 20),
                          !.energy = p.energy - 15,
                          !.hunger = p.hunger - 10,
                          !.state = "HAPPY"],
        result |-> "Playing"]

play(p) ==
  IF ~is_alive(p) THEN [pet |-> p, result |-> "Cannot play with a dead pet"]
  ELSE IF p.state = "EATING" THEN [pet |-> p, result |-> "busy eating"]
  ELSE IF p.state = "SLEEPING" THEN [pet |-> p, result |-> "is sleeping"]
  ELSE IF p.energy < 20 THEN [pet |-> p, result |-> "too tired to play"]
  ELSE [pet |-> [p EXCEPT !.happiness = Min(100, p.happiness + 20),
                          !.energy = p.energy - 15,
                          !.hunger = p.hunger - 10,
                          !.state = "HAPPY"],
        result |-> "Playing"]

\* ------------------------------------------------------------- Pet.sleep
\* sleep() without the check for a pet that is not tired.
sleep_however_rested(p) ==
  IF ~is_alive(p) THEN [pet |-> p, result |-> "Cannot put a dead pet to sleep"]
  ELSE IF p.state = "EATING" THEN [pet |-> p, result |-> "busy eating"]
  ELSE [pet |-> [p EXCEPT !.state = "SLEEPING"], result |-> "is sleeping Zzz"]

\* sleep() without the check for a pet that is eating.
sleep_no_eating_check(p) ==
  IF ~is_alive(p) THEN [pet |-> p, result |-> "Cannot put a dead pet to sleep"]
  ELSE IF p.energy >= 95 THEN [pet |-> p, result |-> "not tired"]
  ELSE [pet |-> [p EXCEPT !.state = "SLEEPING"], result |-> "is sleeping Zzz"]

sleep(p) ==
  IF ~is_alive(p) THEN [pet |-> p, result |-> "Cannot put a dead pet to sleep"]
  ELSE IF p.state = "EATING" THEN [pet |-> p, result |-> "busy eating"]
  ELSE IF p.energy >= 95 THEN [pet |-> p, result |-> "not tired"]
  ELSE [pet |-> [p EXCEPT !.state = "SLEEPING"], result |-> "is sleeping Zzz"]

\* ----------------------------------------------------------- Pet.wake_up
\* wake_up() that makes any pet IDLE.
wake_up_anyone(p) == [pet |-> [p EXCEPT !.state = "IDLE"], result |-> "woke up"]

wake_up(p) ==
  IF p.state = "SLEEPING"
    THEN [pet |-> [p EXCEPT !.state = "IDLE"], result |-> "woke up"]
    ELSE [pet |-> p, result |-> "not sleeping"]

\* -------------------------------------------------------------- Pet.heal
\* heal() without the check for a dead pet.
heal_the_dead(p) ==
  IF p.state = "EATING" THEN [pet |-> p, result |-> "busy eating"]
  ELSE IF p.health >= 95 THEN [pet |-> p, result |-> "is healthy"]
  ELSE [pet |-> [p EXCEPT !.health = Min(100, p.health + 30)], result |-> "Healed"]

heal(p) ==
  IF ~is_alive(p) THEN [pet |-> p, result |-> "Cannot heal a dead pet"]
  ELSE IF p.state = "EATING" THEN [pet |-> p, result |-> "busy eating"]
  ELSE IF p.health >= 95 THEN [pet |-> p, result |-> "is healthy"]
  ELSE [pet |-> [p EXCEPT !.health = Min(100, p.health + 30)], result |-> "Healed"]

\* The results with which an action declines to act.
Refusals ==
  {"Cannot feed a dead pet", "already eating", "not hungry",
   "Cannot play with a dead pet", "busy eating", "is sleeping", "too tired to play",
   "Cannot put a dead pet to sleep", "not tired", "not sleeping",
   "Cannot heal a dead pet", "is healthy"}

\* ------------------------------------------------ Pet.to_dict / from_dict
\* The .value of the enumeration members (lower case) and the members of
\* those values.
EnumValue(n) ==
  CASE n = "CAT" -> "cat" [] n = "DOG" -> "dog" [] n = "DRAGON" -> "dragon"
    [] n = "BUNNY" -> "bunny" [] n = "ALIEN" -> "alien"
    [] n = "IDLE" -> "idle" [] n = "HAPPY" -> "happy" [] n = "HUNGRY" -> "hungry"
    [] n = "EATING" -> "eating" [] n = "SLEEPING" -> "sleeping" [] n = "SAD" -> "sad"
    [] n = "SICK" -> "sick" [] n = "DEAD" -> "dead"

EnumMember(E, v) == CHOOSE n \in E : EnumValue(n) = v

\* datetime.isoformat() and datetime.fromisoformat(): the text of a time.
isoformat(t) == <<"iso", t>>
fromisoformat(x) == x[2]

\* data.get(k, default)
Get(data, k, default) == IF k \in DOMAIN data THEN data[k] ELSE default

\* PetStats(**stats): the constructor bounds the four stats.
PetStats(st) ==
  [st EXCEPT !.hunger = Clamp(st.hunger), !.happiness = Clamp(st.happiness),
             !.energy = Clamp(st.energy), !.health = Clamp(st.health)]

to_dict(p) ==
  [name |-> p.name,
   pet_type |-> EnumValue(p.pet_type),
   stats |-> [hunger |-> p.hunger, happiness |-> p.happiness, energy |-> p.energy,
              health |-> p.health, age |-> p.age, level |-> p.level],
   state |-> EnumValue(p.state),
   position |-> p.position,
   direction |-> p.direction,
   created_at |-> isoformat(p.created_at),
   last_update |-> isoformat(p.last_update),
   eating_started_at |-> IF p.eating_started_at # None
                           THEN isoformat(p.eating_started_at[1]) ELSE None,
   accumulated_damage |-> p.accumulated_damage,
   accumulated_hunger_decay |-> p.accumulated_hunger_decay,
   accumulated_happiness_decay |-> p.accumulated_happiness_decay,
   accumulated_energy_decay |-> p.accumulated_energy_decay]

from_dict(data) ==
  LET st == PetStats(data.stats)
      e  == Get(data, "eating_started_at", None)
  IN  [name |-> data.name,
       pet_type |-> EnumMember(PetType, data.pet_type),
       hunger |-> st.hunger, happiness |-> st.happiness, energy |-> st.energy,
       health |-> st.health, age |-> st.age, level |-> st.level,
       state |-> EnumMember(PetState, data.state),
       position |-> data.position,
       direction |-> data.direction,
       created_at |-> fromisoformat(data.created_at),
       last_update |-> fromisoformat(data.last_update),
       eating_started_at |-> IF e # None THEN Some(fromisoformat(e)) ELSE None,
       accumulated_damage |-> Get(data, "accumulated_damage", 0),
       accumulated_hunger_decay |-> Get(data, "accumulated_hunger_decay", 0),
       accumulated_happiness_decay |-> Get(data, "accumulated_happiness_decay", 0),
       accumulated_energy_decay |-> Get(data, "accumulated_energy_decay", 0)]

\* No game loop is running: the pet is driven directly, as the tests of the
\* repository drive it.  engine is the GameEngine object, save_file the content
\* of ~/.tamagocli/save.json (None: no file), added every event ever handed to
\* _add_event.
NoSession ==
  /\ engine = [pc |-> "none", running |-> FALSE, events |-> <<>>,
               last_autosave |-> 0, last_update |-> 0]
  /\ save_file = None
  /\ added = <<>>

\* ============================================================ the machine
\* Pets as main.py finds them in the save file (Pet.from_dict of a record a
\* previous run saved).  Each is the state the code reaches from a new pet
\* by the run named in its comment; times are relative to the load.
\* CAT: one update after 19 s.
SavedHungryCat ==
  [name |-> "Pet", pet_type |-> "CAT", hunger |-> 5, happiness |-> 55, energy |-> 74, health |-> 100, age |-> 19, level |-> 1, state |-> "HUNGRY", position |-> 50, direction |-> 1, created_at |-> -19, last_update |-> 0, eating_started_at |-> <<>>, accumulated_damage |-> 0, accumulated_hunger_decay |-> 0, accumulated_happiness_decay |-> 6, accumulated_energy_decay |-> 6]

\* DOG: 52 rounds of (1 s, update, heal), then 16 rounds of (1 s, update).
SavedDyingDog ==
  [name |-> "Pet", pet_type |-> "DOG", hunger |-> 0, happiness |-> 0, energy |-> 0, health |-> 4, age |-> 68, level |-> 1, state |-> "SICK", position |-> 50, direction |-> 1, created_at |-> -68, last_update |-> 0, eating_started_at |-> <<>>, accumulated_damage |-> 0, accumulated_hunger_decay |-> 0, accumulated_happiness_decay |-> 0, accumulated_energy_decay |-> 0]

\* BUNNY: one update after 6 s.
SavedRestlessBunny ==
  [name |-> "Pet", pet_type |-> "BUNNY", hunger |-> 76, happiness |-> 82, energy |-> 90, health |-> 100, age |-> 6, level |-> 1, state |-> "HAPPY", position |-> 50, direction |-> 1, created_at |-> -6, last_update |-> 0, eating_started_at |-> <<>>, accumulated_damage |-> 0, accumulated_hunger_decay |-> 0, accumulated_happiness_decay |-> 0, accumulated_energy_decay |-> 8]

\* DOG: 52 rounds of (1 s, update, heal).
SavedExhaustedDog ==
  [name |-> "Pet", pet_type |-> "DOG", hunger |-> 0, happiness |-> 0, energy |-> 0, health |-> 100, age |-> 52, level |-> 1, state |-> "HUNGRY", position |-> 50, direction |-> 1, created_at |-> -52, last_update |-> 0, eating_started_at |-> <<>>, accumulated_damage |-> 0, accumulated_hunger_decay |-> 0, accumulated_happiness_decay |-> 0, accumulated_energy_decay |-> 0]

\* ALIEN: update after 10 s, play, update after 10 s, feed, update after 10 s.
SavedSadAlien ==
  [name |-> "Pet", pet_type |-> "ALIEN", hunger |-> 75, happiness |-> 22, energy |-> 49, health |-> 100, age |-> 30, level |-> 1, state |-> "SAD", position |-> 50, direction |-> 1, created_at |-> -30, last_update |-> 0, eating_started_at |-> <<>>, accumulated_damage |-> 0, accumulated_hunger_decay |-> 0, accumulated_happiness_decay |-> 0, accumulated_energy_decay |-> 0]

\* DRAGON: update after 13 s, feed, saved 1 s later.
SavedEatingDragon ==
  [name |-> "Pet", pet_type |-> "DRAGON", hunger |-> 27, happiness |-> 75, energy |-> 80, health |-> 100, age |-> 13, level |-> 1, state |-> "EATING", position |-> 50, direction |-> 1, created_at |-> -14, last_update |-> -1, eating_started_at |-> <<-1>>, accumulated_damage |-> 0, accumulated_hunger_decay |-> 5, accumulated_happiness_decay |-> 1, accumulated_energy_decay |-> 8]

\* CAT: update after 19 s, sleep, update 1 s later.
SavedSleepingCat ==
  [name |-> "Pet", pet_type |-> "CAT", hunger |-> 0, happiness |-> 52, energy |-> 84, health |-> 97, age |-> 20, level |-> 1, state |-> "SLEEPING", position |-> 50, direction |-> 1, created_at |-> -20, last_update |-> 0, eating_started_at |-> <<>>, accumulated_damage |-> 0, accumulated_hunger_decay |-> 0, accumulated_happiness_decay |-> 0, accumulated_energy_decay |-> 6]

\* CAT: update after 19 s, update 1.5 s later (starving), feed, update 3.5 s
\* later: half a unit of damage stays in the accumulator.
SavedRecoveredCat ==
  [name |-> "Pet", pet_type |-> "CAT", hunger |-> 18, happiness |-> 53, energy |-> 67, health |-> 96, age |-> 24, level |-> 1, state |-> "HUNGRY", position |-> 50, direction |-> 1, created_at |-> -24, last_update |-> 0, eating_started_at |-> <<>>, accumulated_damage |-> 5, accumulated_hunger_decay |-> 0, accumulated_happiness_decay |-> 6, accumulated_energy_decay |-> 6]

\* DRAGON: one update after 14 s.
SavedStarvedDragon ==
  [name |-> "Pet", pet_type |-> "DRAGON", hunger |-> 0, happiness |-> 63, energy |-> 78, health |-> 58, age |-> 14, level |-> 1, state |-> "HUNGRY", position |-> 50, direction |-> 1, created_at |-> -14, last_update |-> 0, eating_started_at |-> <<>>, accumulated_damage |-> 0, accumulated_hunger_decay |-> 0, accumulated_happiness_decay |-> 8, accumulated_energy_decay |-> 4]

SavedPets ==
  {SavedHungryCat, SavedDyingDog, SavedRestlessBunny, SavedExhaustedDog, SavedSadAlien,
   SavedEatingDragon, SavedSleepingCat, SavedRecoveredCat}

\* The pets a session starts with: created by the selection menu, or loaded.
StartPets == {NewPet(ty, 0) : ty \in PetType} \cup SavedPets

Init ==
  /\ pet \in StartPets
  /\ now = 0
  /\ calls = 0
  /\ op = "new"
  /\ events = <<>>
  /\ result = ""
  /\ snap = pet
  /\ rival = NewPet("CAT", 0)
  /\ NoSession

\* The wall clock advances by one tick (time.sleep, the user idling).
Tick ==
  /\ now < MaxTime
  /\ now' = now + 1
  /\ UNCHANGED <<pet, calls, op, events, result, snap, rival, engine, save_file, added>>

Update ==
  /\ calls < MaxCalls
  /\ \E flip \in BOOLEAN, step \in 0..2, low \in Roundings(pet, now) :
       LET r == update(pet, now, flip, step, low)
       IN  /\ pet' = r.pet
           /\ events' = r.events
  /\ op' = "update"
  /\ result' = ""
  /\ calls' = calls + 1
  /\ UNCHANGED <<now, snap, rival, engine, save_file, added>>

Act(name, r) ==
  /\ calls < MaxCalls
  /\ pet' = r.pet
  /\ result' = r.result
  /\ op' = name
  /\ events' = <<>>
  /\ calls' = calls + 1
  /\ UNCHANGED <<now, snap, rival, engine, save_file, added>>

Feed == Act("feed", feed(pet, now))
Play == Act("play", play(pet))
Sleep == Act("sleep", sleep(pet))
WakeUp == Act("wake_up", wake_up(pet))
Heal == Act("heal", heal(pet))

Next == Tick \/ Update \/ Feed \/ Play \/ Sleep \/ WakeUp \/ Heal

Spec == Init /\ [][Next]_vars

TypeOK == pet.state \in PetState /\ now \in 0..MaxTime

\* ================================================================ claims
\* A step in which update() or an action was called (not a clock tick).
Called == calls' # calls

Actions == {"feed", "play", "sleep", "wake_up", "heal"}

\* C1: after every call each of hunger, happiness, energy and health lies
\* in [0,100].  (Stated as claimed; play() breaks it.)
C1_StatsInBounds ==
  /\ pet.hunger \in 0..100
  /\ pet.happiness \in 0..100
  /\ pet.energy \in 0..100
  /\ pet.health \in 0..100

\* C2: the pet is alive iff health > 0, and its mood is DEAD iff health is 0,
\* in every state reached through update() and the actions.
C2_DeadIffNoHealth ==
  /\ pet.health >= 0
  /\ is_alive(pet) <=> pet.state # "DEAD"
  /\ pet.state = "DEAD" <=> pet.health = 0

\* An update() has just killed a pet that was EATING and whose 3 s were not
\* over (the timestamp is still there).
C2_DiedWhileEating ==
  /\ op = "update"
  /\ pet.state = "DEAD"
  /\ pet.health = 0
  /\ pet.eating_started_at # None

\* C3: once health is 0, every call leaves the whole pet (mood DEAD, stats,
\* age, accumulators, last-update time, position) as it was; update()
\* returns no event and every action returns a refusal.
C3_DeadIsFrozen ==
  [][(pet.health = 0 /\ Called) =>
       /\ pet' = pet
       /\ pet'.state = "DEAD"
       /\ (op' = "update" => events' = <<>>)
       /\ (op' \in Actions => result' \in Refusals)]_vars

\* A dead pet has just been refused a heal, after time has passed since its
\* last update.
C3_DeadRefused ==
  /\ pet.health = 0
  /\ pet.state = "DEAD"
  /\ op = "heal"
  /\ result = "Cannot heal a dead pet"
  /\ now > pet.last_update

\* C4: a SLEEPING pet leaves SLEEPING only through wake_up(), through an
\* update() in which energy reaches 100, or by dying.  (Stated as claimed;
\* feed() breaks it.)
C4_SleepingProtected ==
  [][(pet.state = "SLEEPING" /\ pet'.state # "SLEEPING") =>
       \/ op' = "wake_up"
       \/ op' = "update" /\ (pet'.energy = 100 \/ pet'.state = "DEAD")]_vars

\* C5: while the mood is EATING, feed(), play(), sleep() and heal() return
\* the eating refusal and change nothing; wake_up() changes nothing either.
C5_EatingRefuses ==
  [][(pet.state = "EATING" /\ Called /\ op' \in Actions) =>
       /\ pet' = pet
       /\ (op' = "feed" => result' = "already eating")
       /\ (op' \in {"play", "sleep", "heal"} => result' = "busy eating")
       /\ (op' = "wake_up" => result' = "not sleeping")]_vars

\* An EATING pet that is tired enough to sleep has just been refused sleep.
C5_EatingRefusedSleep ==
  /\ pet.state = "EATING"
  /\ pet.energy < 95
  /\ op = "sleep"
  /\ result = "busy eating"

\* The number of finished-eating events among evs.
Finished(evs) == Cardinality({i \in DOMAIN evs : evs[i] = "finished eating"})

\* An update() call on a pet that is EATING since a feed() at time t0.
UpdateWhileEating ==
  /\ Called /\ op' = "update"
  /\ pet.state = "EATING" /\ pet.eating_started_at # None

\* The mood becomes EATING through a successful feed() only.
EatingEnteredByFeed ==
  (pet.state # "EATING" /\ pet'.state = "EATING") =>
    (op' = "feed" /\ result' = "Fed" /\ pet'.eating_started_at = Some(now))

\* C6, as claimed: after a feed() at t0 every update() before t0 + 3 s leaves
\* the mood EATING and emits no finished-eating event; the first update() at
\* or after t0 + 3 s leaves EATING, clears the timestamp and emits the event;
\* EATING is left once per feed, and every exit clears the timestamp and
\* comes with exactly one finished-eating event.
C6_EatingTimerAsClaimed ==
  [][/\ UpdateWhileEating =>
          IF now - pet.eating_started_at[1] < EatingTicks
            THEN pet'.state = "EATING" /\ Finished(events') = 0
            ELSE /\ pet'.state # "EATING"
                 /\ pet'.eating_started_at = None
                 /\ Finished(events') = 1
     /\ EatingEnteredByFeed
     /\ (pet.state = "EATING" /\ pet'.state # "EATING") =>
          (pet'.eating_started_at = None /\ Finished(events') = 1)]_vars

\* C6, amended: as claimed, unless an update() before t0 + 3 s kills the pet:
\* that update makes the mood DEAD, keeps the timestamp and emits no
\* finished-eating event.  A finished-eating event is emitted only by an
\* update() that ends EATING.
C6_EatingTimer ==
  [][/\ UpdateWhileEating =>
          IF now - pet.eating_started_at[1] < EatingTicks
            THEN /\ Finished(events') = 0
                 /\ pet'.eating_started_at = pet.eating_started_at
                 /\ IF pet'.health > 0 THEN pet'.state = "EATING"
                                       ELSE pet'.state = "DEAD"
            ELSE /\ pet'.state # "EATING"
                 /\ pet'.eating_started_at = None
                 /\ Finished(events') = 1
     /\ EatingEnteredByFeed
     /\ (pet.state = "EATING" /\ pet'.state # "EATING") =>
          /\ op' = "update"
          /\ \/ pet'.eating_started_at = None /\ Finished(events') = 1
             \/ pet'.state = "DEAD" /\ Finished(events') = 0
     /\ (Called /\ Finished(events') > 0) =>
          (op' = "update" /\ pet.state = "EATING")]_vars

\* An update() 3 s or more after the feed has just ended EATING on a pet
\* that lives on.
C6_FinishedEating ==
  /\ op = "update"
  /\ Finished(events) = 1 /\ events[1] = "finished eating"
  /\ pet.state \notin {"EATING", "DEAD"}
  /\ pet.eating_started_at = None
  /\ pet.last_update = now

\* ------------------------------------------------- stale persisted records
\* A record saved while the pet was EATING by a version that did not yet
\* write eating_started_at: from_dict() loads it with mood EATING and no
\* timestamp.
StaleRecord(p) == [feed(p, 0).pet EXCEPT !.eating_started_at = None]

StalePets == {StaleRecord(p) : p \in {q \in StartPets : feed(q, 0).result = "Fed"}}

InitStale ==
  /\ pet \in StalePets
  /\ now = 0
  /\ calls = 0
  /\ op = "new"
  /\ events = <<>>
  /\ result = ""
  /\ snap = pet
  /\ rival = NewPet("CAT", 0)
  /\ NoSession

SpecStale == InitStale /\ [][Next]_vars

\* C7: a live pet that is EATING without an eating-start timestamp stops
\* eating in the next update(), whatever time has passed: the mood is not
\* EATING when the call returns and the first event returned is the
\* finished-eating event.
C7_StaleEatingEnds ==
  [][(Called /\ op' = "update" /\ is_alive(pet)
        /\ pet.state = "EATING" /\ pet.eating_started_at = None) =>
       /\ pet'.state # "EATING"
       /\ events' # <<>>
       /\ events'[1] = "finished eating"]_vars

\* An update() less than 3 s after the load has just ended the eating of a
\* pet loaded without a timestamp.
C7_StaleFinishedEarly ==
  /\ snap.state = "EATING" /\ snap.eating_started_at = None
  /\ calls = 1 /\ op = "update"
  /\ now < EatingTicks
  /\ pet.state # "EATING"
  /\ events # <<>> /\ events[1] = "finished eating"

\* ------------------------------------------------ a pet left to itself
\* The pet as a start or one action leaves it; from then on only time passes
\* and update() is called.  snap keeps that pet.
AfterAction(p) ==
  {p, feed(p, 0).pet, play(p).pet, sleep(p).pet, wake_up(p).pet, heal(p).pet}

SplitPets ==
  {q \in UNION {AfterAction(p) : p \in StartPets \cup {SavedStarvedDragon}} : is_alive(q)}

InitSplit ==
  /\ pet \in SplitPets
  /\ now = 0
  /\ calls = 0
  /\ op = "new"
  /\ events = <<>>
  /\ result = ""
  /\ snap = pet
  /\ rival = NewPet("CAT", 0)
  /\ NoSession

NextSplit == Tick \/ Update

SpecSplit == InitSplit /\ [][NextSplit]_vars

\* The pets a single update() at time now makes of snap (one for each way
\* the floating-point sums can fall).
SingleCall == {update(snap, now, FALSE, 0, low).pet : low \in Roundings(snap, now)}

Dist(a, b) == IF a >= b THEN a - b ELSE b - a

Within1(a, b) ==
  /\ Dist(a.hunger, b.hunger) <= 1
  /\ Dist(a.happiness, b.happiness) <= 1
  /\ Dist(a.energy, b.energy) <= 1

\* C8, as claimed: for a live pet that is not SLEEPING and receives no
\* actions, one update() after a time dt and any number of update() calls
\* spread over the same dt leave hunger, happiness and energy within 1 of
\* each other.
C8_SplitWithinOneAsClaimed ==
  [][(Called /\ op' = "update" /\ is_alive(snap) /\ snap.state # "SLEEPING") =>
       \A single \in SingleCall : Within1(single, pet')]_vars

\* C8, amended: the same, provided the pet is alive when each of the
\* smaller calls starts (a call on a dead pet decays nothing).
C8_SplitWithinOne ==
  [][(Called /\ op' = "update" /\ is_alive(snap) /\ snap.state # "SLEEPING"
        /\ is_alive(pet)) =>
       \A single \in SingleCall : Within1(single, pet')]_vars

\* Two update() calls at different times, the first while the pet is still
\* eating and the second ending it, have brought a live pet to the values a
\* single call gives, within 1.
C8_SplitInTwo ==
  /\ calls = 2 /\ op = "update"
  /\ snap.state = "EATING"
  /\ Finished(events) = 1
  /\ is_alive(pet) /\ pet.last_update = now
  /\ pet.hunger < snap.hunger
  /\ \A single \in SingleCall : Within1(single, pet)

\* ----------------------------------------------------------- C9: decay
\* One accumulator and its stat across an update(): the accumulator acc grew
\* by inc, a whole number n of units went from it into the stat, which is
\* floored at 0 when update() returns, and the accumulator keeps the
\* fraction.  n is the integer part of the floating-point sum: the accumulator
\* is left below 1.0 (AccOne stands for a value just below it, see Settle).
AccumulatorStep(stat, acc, inc, stat2, acc2) ==
  LET sum == acc + inc
      n   == (sum - acc2) \div AccOne
  IN  /\ acc2 \in 0..AccOne
      /\ (sum - acc2) % AccOne = 0
      /\ n >= 0
      /\ (sum < AccOne => n = 0)
      /\ (acc2 = AccOne => (inc = 0 \/ Tie(acc, inc)))
      /\ stat2 = Clamp(stat - n)

\* Every update() on a live pet with elapsed time e adds e/10 * 50, 30, 20
\* times the species multiplier to the hunger, happiness and (unless the pet
\* is SLEEPING) energy accumulator and applies the integer part.
C9_PerUpdate ==
  (Called /\ op' = "update" /\ is_alive(pet)) =>
    LET e == now - pet.last_update
    IN  /\ AccumulatorStep(pet.hunger, pet.accumulated_hunger_decay,
                           e * 5 * traits(pet).hunger_decay,
                           pet'.hunger, pet'.accumulated_hunger_decay)
        /\ AccumulatorStep(pet.happiness, pet.accumulated_happiness_decay,
                           e * 3 * traits(pet).happiness_decay,
                           pet'.happiness, pet'.accumulated_happiness_decay)
        /\ IF pet.state # "SLEEPING"
             THEN AccumulatorStep(pet.energy, pet.accumulated_energy_decay,
                                  e * 2 * traits(pet).energy_decay,
                                  pet'.energy, pet'.accumulated_energy_decay)
             ELSE /\ pet'.accumulated_energy_decay = pet.accumulated_energy_decay
                  /\ pet'.energy >= Clamp(pet.energy)

\* floor(acc0 + rate * m * T), for T seconds since snap.
FloorLoss(acc0, rate, m10) ==
  (acc0 + (now - snap.last_update) * rate * m10) \div AccOne

\* acc0 + rate * m * T is a whole number, at least 1.
WholeLoss(acc0, rate, m10) ==
  LET x == acc0 + (now - snap.last_update) * rate * m10
  IN  x % AccOne = 0 /\ x >= AccOne

\* A stat that started at start has lost min(start, n).
Lost(start, n, stat) == stat = start - Min(start, n)

\* C9, as claimed: the accumulator rule of every update(), and hence, over
\* updates totalling T seconds, a pet that was not SLEEPING has lost
\* min(start, floor(acc0 + 5 * m * T)) hunger, and likewise with 3 and 2 for
\* happiness and energy.
C9_DecayAsClaimed ==
  [][/\ C9_PerUpdate
     /\ (Called /\ op' = "update" /\ is_alive(snap) /\ snap.state # "SLEEPING") =>
          /\ Lost(snap.hunger,
                  FloorLoss(snap.accumulated_hunger_decay, 5, traits(snap).hunger_decay),
                  pet'.hunger)
          /\ Lost(snap.happiness,
                  FloorLoss(snap.accumulated_happiness_decay, 3, traits(snap).happiness_decay),
                  pet'.happiness)
          /\ Lost(snap.energy,
                  FloorLoss(snap.accumulated_energy_decay, 2, traits(snap).energy_decay),
                  pet'.energy)]_vars

\* The loss after T seconds: floor(acc0 + rate * m * T), or one less than
\* that when acc0 + rate * m * T is a whole number (the floating-point sum
\* can fall just below it).
LostAbout(start, acc0, rate, m10, stat) ==
  \/ Lost(start, FloorLoss(acc0, rate, m10), stat)
  \/ /\ WholeLoss(acc0, rate, m10)
     /\ Lost(start, FloorLoss(acc0, rate, m10) - 1, stat)

\* C9, amended: the accumulator rule of every update(), and hence, over
\* updates totalling T seconds, a pet that was not SLEEPING and was alive
\* when each of the updates started has lost min(start, n) hunger, where n is
\* floor(acc0 + 5 * m * T), or one less when acc0 + 5 * m * T is a whole
\* number; likewise with 3 and 2 for happiness and energy.
C9_Decay ==
  [][/\ C9_PerUpdate
     /\ (Called /\ op' = "update" /\ is_alive(snap) /\ snap.state # "SLEEPING"
           /\ is_alive(pet)) =>
          /\ LostAbout(snap.hunger, snap.accumulated_hunger_decay, 5,
                       traits(snap).hunger_decay, pet'.hunger)
          /\ LostAbout(snap.happiness, snap.accumulated_happiness_decay, 3,
                       traits(snap).happiness_decay, pet'.happiness)
          /\ LostAbout(snap.energy, snap.accumulated_energy_decay, 2,
                       traits(snap).energy_decay, pet'.energy)]_vars

\* Two update() calls at different times (the first while the pet is still
\* eating, the second ending it) have taken floor(acc0 + 2 * m * T) >= 1
\* energy from a live pet, and a fraction is kept.
C9_FractionCarried ==
  /\ calls = 2 /\ op = "update"
  /\ snap.state = "EATING" /\ Finished(events) = 1
  /\ is_alive(pet) /\ pet.last_update = now
  /\ pet.accumulated_energy_decay \in 1..(AccOne - 1)
  /\ FloorLoss(snap.accumulated_energy_decay, 2, traits(snap).energy_decay) >= 1
  /\ pet.energy = snap.energy
       - FloorLoss(snap.accumulated_energy_decay, 2, traits(snap).energy_decay)
  /\ pet.energy > 0

\* ---------------------------------------------------------- C10: damage
\* The whole units an update() took from a stat, read off its accumulator:
\* the accumulator acc grew by inc and was left at acc2.
Taken(acc, inc, acc2) == (acc + inc - acc2) \div AccOne

\* C10: every update() on a live pet with elapsed time e adds
\* e/10 * (30 if hunger is 0 + 10 if happiness <= 20 + 20 if energy is 0) to
\* the one damage accumulator, the three conditions taken on the stats after
\* this update's decay (a stat decayed below 0 counts as 0: it is floored
\* when update() returns) and before the sleeping regeneration; the integer
\* part of the accumulator goes from health, the fraction is kept.
C10_DamageAccrual ==
  [][(Called /\ op' = "update" /\ is_alive(pet)) =>
       LET e  == now - pet.last_update
           hu == pet.hunger - Taken(pet.accumulated_hunger_decay,
                                     e * 5 * traits(pet).hunger_decay,
                                     pet'.accumulated_hunger_decay)
           ha == pet.happiness - Taken(pet.accumulated_happiness_decay,
                                        e * 3 * traits(pet).happiness_decay,
                                        pet'.accumulated_happiness_decay)
           en == IF pet.state = "SLEEPING" THEN pet.energy
                 ELSE pet.energy - Taken(pet.accumulated_energy_decay,
                                         e * 2 * traits(pet).energy_decay,
                                         pet'.accumulated_energy_decay)
           grow == e * ( (IF Clamp(hu) = 0 THEN 30 ELSE 0)
                       + (IF ha <= 20 THEN 10 ELSE 0)
                       + (IF Clamp(en) = 0 THEN 20 ELSE 0) )
       IN  AccumulatorStep(pet.health, pet.accumulated_damage, grow,
                           pet'.health, pet'.accumulated_damage)]_vars

\* An update() has just taken 3 + 1 + 2 = 6 health for one second from a
\* sleeping pet whose hunger, happiness and energy were all 0 before the
\* regeneration gave it 10 energy.
C10_ThreeSourcesStacked ==
  /\ op = "update"
  /\ pet.state = "SLEEPING"
  /\ pet.hunger = 0 /\ pet.happiness = 0 /\ pet.energy = 10
  /\ pet.last_update = 1
  /\ pet.health = snap.health - 6
  /\ pet.accumulated_damage = 0

\* --------------------------------------------------- C11: starving pets
\* A pet left to itself since snap, which had hunger 0, and whose happiness
\* has stayed above 20 and energy above 0.
StarvingOnly ==
  /\ is_alive(snap)
  /\ snap.hunger = 0 /\ snap.happiness > 20 /\ snap.energy > 0
  /\ pet'.happiness > 20 /\ pet'.energy > 0

\* Health after losing n since snap, until it reaches 0.
HealthLost(n) == pet'.health = Max(0, snap.health - n)

\* C11, as claimed: such a pet has lost floor(a0 + 3 * T) health after
\* update() calls totalling T seconds, however T is split, until health
\* reaches 0.
C11_StarvingLossAsClaimed ==
  [][(Called /\ op' = "update" /\ StarvingOnly) =>
       HealthLost(FloorLoss(snap.accumulated_damage, 3, 10))]_vars

\* C11, amended: the loss is floor(a0 + 3 * T), or one less than that when
\* a0 + 3 * T is a whole number (the floating-point sum of the splits can
\* fall just below it).
C11_StarvingLoss ==
  [][(Called /\ op' = "update" /\ StarvingOnly) =>
       \/ HealthLost(FloorLoss(snap.accumulated_damage, 3, 10))
       \/ /\ WholeLoss(snap.accumulated_damage, 3, 10)
          /\ HealthLost(FloorLoss(snap.accumulated_damage, 3, 10) - 1)]_vars

\* A starving, otherwise content pet has lost 3 health per second over two
\* update() calls and three seconds.
C11_StarvedThreeSeconds ==
  /\ calls = 2 /\ op = "update"
  /\ snap.hunger = 0 /\ snap.happiness > 20 /\ snap.energy > 0
  /\ pet.happiness > 20 /\ pet.energy > 0
  /\ pet.last_update = 3 /\ snap.last_update = 0
  /\ pet.health = snap.health - 9
  /\ pet.health > 0

\* ------------------------------------------- C12: health without damage
\* hunger, happiness and energy after an update()'s decay, before the
\* sleeping regeneration and the floor at 0.
PostDecayHunger ==
  pet.hunger - Taken(pet.accumulated_hunger_decay,
                     (now - pet.last_update) * 5 * traits(pet).hunger_decay,
                     pet'.accumulated_hunger_decay)

PostDecayHappiness ==
  pet.happiness - Taken(pet.accumulated_happiness_decay,
                        (now - pet.last_update) * 3 * traits(pet).happiness_decay,
                        pet'.accumulated_happiness_decay)

PostDecayEnergy ==
  IF pet.state = "SLEEPING" THEN pet.energy
  ELSE pet.energy - Taken(pet.accumulated_energy_decay,
                          (now - pet.last_update) * 2 * traits(pet).energy_decay,
                          pet'.accumulated_energy_decay)

\* C12: an update() after whose decay hunger > 0, happiness > 20 and
\* energy > 0 leaves health unchanged, also when a fraction of damage is left
\* in the accumulator from earlier neglect.
C12_HealthKept ==
  [][(Called /\ op' = "update" /\ is_alive(pet)
        /\ PostDecayHunger > 0 /\ PostDecayHappiness > 20 /\ PostDecayEnergy > 0) =>
       pet'.health = pet.health]_vars

\* After an update() some time after the last one, a pet with a damage
\* remainder in the accumulator and no damaging condition has the health it
\* started with.
C12_RemainderHarmless ==
  /\ op = "update" /\ calls = 1
  /\ pet.last_update = now /\ now > snap.last_update
  /\ snap.accumulated_damage > 0
  /\ pet.accumulated_damage = snap.accumulated_damage
  /\ pet.hunger > 0 /\ pet.happiness > 20 /\ pet.energy > 0
  /\ pet.health = snap.health /\ pet.health < 100

\* ------------------------------------------------ C13: sleeping updates
\* The number of woke-up events among evs.
Woke(evs) == Cardinality({i \in DOMAIN evs : evs[i] = "woke up refreshed"})

\* An update() call on a live SLEEPING pet.
UpdateWhileSleeping ==
  Called /\ op' = "update" /\ is_alive(pet) /\ pet.state = "SLEEPING"

\* Energy rises by a flat 10, capped at 100, and is not decayed.
SleepingEnergy ==
  /\ pet'.energy = Min(100, pet.energy + 10)
  /\ pet'.accumulated_energy_decay = pet.accumulated_energy_decay

\* C13, as claimed: in every update() on a live SLEEPING pet energy becomes
\* min(100, energy + 10) whatever the elapsed time, the energy accumulator is
\* unchanged, and the pet leaves SLEEPING in that call, with a woke-up
\* event, iff the resulting energy is 100.
C13_SleepingUpdateAsClaimed ==
  [][UpdateWhileSleeping =>
       /\ SleepingEnergy
       /\ (pet'.state # "SLEEPING") <=> (pet'.energy = 100)
       /\ (Woke(events') = 1) <=> (pet'.energy = 100)
       /\ Woke(events') <= 1]_vars

\* C13, amended: the same for a pet that is alive when the call returns; a
\* pet that dies in the call ends DEAD whatever its energy, and the woke-up
\* event is returned iff the resulting energy is 100 in either case.
C13_SleepingUpdate ==
  [][UpdateWhileSleeping =>
       /\ SleepingEnergy
       /\ IF is_alive(pet')
            THEN (pet'.state # "SLEEPING") <=> (pet'.energy = 100)
            ELSE pet'.state = "DEAD"
       /\ (Woke(events') = 1) <=> (pet'.energy = 100)
       /\ Woke(events') <= 1]_vars

\* The second update() on a pet loaded asleep has brought its energy to 100
\* and woken it; the first one, at 94, had not.
C13_AutoWoken ==
  /\ calls = 2 /\ op = "update"
  /\ snap.state = "SLEEPING" /\ snap.energy \in 80..89
  /\ pet.energy = 100
  /\ is_alive(pet) /\ pet.state # "SLEEPING"
  /\ Woke(events) = 1

\* ------------------------------------------------- C14: sleeping it off
\* ceil(a / b)
CeilDiv(a, b) == (a + b - 1) \div b

\* The update() calls a pet asleep at energy e needs to wake.
UpdatesToWake(e) == CeilDiv(100 - e, 10)

\* C14: a pet put to sleep at energy e < 95 that stays alive and is left to
\* itself (snap is the pet as sleep() left it, calls counts the update()
\* calls since) wakes in exactly the ceil((100 - e) / 10)-th update(): that
\* call returns the woke-up event and leaves energy 100, and no other call
\* returns one; until then the pet is SLEEPING.
C14_WakesOnNthUpdate ==
  [][(Called /\ op' = "update" /\ is_alive(pet')
        /\ is_alive(snap) /\ snap.state = "SLEEPING" /\ snap.energy < 95) =>
       LET n == UpdatesToWake(snap.energy)
       IN  /\ calls' < n => (pet'.state = "SLEEPING" /\ Woke(events') = 0
                             /\ pet'.energy = snap.energy + 10 * calls')
           /\ calls' = n => (pet'.state # "SLEEPING" /\ Woke(events') = 1
                             /\ pet'.energy = 100)
           /\ calls' > n => (pet'.state # "SLEEPING" /\ Woke(events') = 0)]_vars

\* A pet asleep at energy 84 has been woken by its second update(), which
\* is the ceil(16 / 10)-th.
C14_WokenBySecondUpdate ==
  /\ op = "update"
  /\ snap.state = "SLEEPING" /\ snap.energy < 90
  /\ calls = UpdatesToWake(snap.energy)
  /\ is_alive(pet) /\ pet.state # "SLEEPING"
  /\ pet.energy = 100
  /\ Woke(events) = 1

\* ------------------------------------------------- C15: mood priorities
\* The mood the stats call for.
MoodOf(health, hunger, happiness, energy) ==
  CASE health < 30 -> "SICK"
    [] health >= 30 /\ hunger < 20 -> "HUNGRY"
    [] health >= 30 /\ hunger >= 20 /\ happiness < 30 -> "SAD"
    [] health >= 30 /\ hunger >= 20 /\ happiness >= 30
         /\ happiness > 80 /\ energy > 60 -> "HAPPY"
    [] OTHER -> "IDLE"

\* C15: after every update() that leaves the pet alive and neither EATING
\* nor SLEEPING, the mood is SICK if health < 30, else HUNGRY if hunger < 20,
\* else SAD if happiness < 30, else HAPPY if happiness > 80 and energy > 60,
\* else IDLE, on the stats as returned; also when that update ended the
\* eating or woke the pet.
C15_MoodByPriority ==
  [][(Called /\ op' = "update" /\ is_alive(pet')
        /\ pet'.state \notin {"EATING", "SLEEPING"}) =>
       pet'.state = MoodOf(pet'.health, pet'.hunger, pet'.happiness, pet'.energy)]_vars

\* The update() that ended the eating has left a pet with health >= 30 and
\* hunger < 20 HUNGRY.
C15_HungryAfterEating ==
  /\ op = "update"
  /\ Finished(events) = 1
  /\ pet.health >= 30 /\ pet.hunger < 20
  /\ pet.state = "HUNGRY"

\* ------------------------------------------------------------ C16: feed
\* 30 * foodEfficiency for each species.
FoodValue(ty) ==
  CASE ty = "CAT" -> 36
    [] ty = "DOG" -> 30
    [] ty = "DRAGON" -> 24
    [] ty = "BUNNY" -> 45
    [] ty = "ALIEN" -> 60

C18_Sleep ==
  [][(Called /\ op' = "sleep") =>
       LET ok == is_alive(pet) /\ pet.state # "EATING" /\ pet.energy < 95
       IN  /\ (result' = "is sleeping Zzz") <=> ok
           /\ (result' \in {"Cannot put a dead pet to sleep", "busy eating", "not tired"})
                <=> ~ok
           /\ IF ok THEN pet' = [pet EXCEPT !.state = "SLEEPING"]
                    ELSE pet' = pet]_vars

\* A tired pet that was awake has just been put to sleep, some time after
\* its last update: only the mood has changed.
C18_PutToSleep ==
  /\ op = "sleep" /\ result = "is sleeping Zzz" /\ calls = 1
  /\ snap.state \notin {"SLEEPING", "EATING"} /\ snap.energy < 95
  /\ pet = [snap EXCEPT !.state = "SLEEPING"]
  /\ now > pet.last_update

\* --------------------------------------------------------- C19: wake_up
\* C19: wake_up() changes the pet only when the mood is SLEEPING: the mood
\* becomes IDLE and nothing else changes; in every other mood (EATING and
\* DEAD included) it returns "not sleeping" and changes nothing.
C19_WakeUp ==
  [][(Called /\ op' = "wake_up") =>
       IF pet.state = "SLEEPING"
         THEN pet' = [pet EXCEPT !.state = "IDLE"] /\ result' = "woke up"
         ELSE pet' = pet /\ result' = "not sleeping"]_vars

\* A sleeping pet has just been woken and is IDLE, although its stats call
\* for another mood.
C19_WokenIdle ==
  /\ op = "wake_up" /\ result = "woke up" /\ calls = 1
  /\ snap.state = "SLEEPING"
  /\ pet = [snap EXCEPT !.state = "IDLE"]
  /\ MoodOf(pet.health, pet.hunger, pet.happiness, pet.energy) # "IDLE"

\* ------------------------------------------------------------ C20: heal
\* C20: heal() succeeds iff the pet is alive, not EATING and health < 95; it
\* then raises health by 30, capped at 100, and changes nothing else (mood,
\* hunger, happiness, energy); a refused heal() changes nothing, and a pet
\* with health 0 stays at health 0.
C20_Heal ==
  [][(Called /\ op' = "heal") =>
       LET ok == is_alive(pet) /\ pet.state # "EATING" /\ pet.health < 95
       IN  /\ (result' = "Healed") <=> ok
           /\ (result' \in Refusals) <=> ~ok
           /\ IF ok THEN pet' = [pet EXCEPT !.health = Min(100, pet.health + 30)]
                    ELSE pet' = pet
           /\ (pet.health = 0 => pet'.health = 0)]_vars

\* A SICK pet with health 4 has just been healed to 34; its mood is still
\* SICK.
C20_HealedStillSick ==
  /\ op = "heal" /\ result = "Healed" /\ calls = 1
  /\ snap.health < 30
  /\ pet = [snap EXCEPT !.health = snap.health + 30]
  /\ pet.state = "SICK"

\* --------------------------------------------------- C21: save and load
\* C21, as claimed: for every pet reached through update() and the actions,
\* from_dict(to_dict(pet)) has the same name, species, stats, age, level,
\* mood, position, direction, three times and four accumulators.  (play()
\* can leave hunger below 0, which the load bounds.)
C21_RoundTrip == from_dict(to_dict(pet)) = pet

\* --------------------------------------------- C22: records of older saves
\* The fields a record of an older save may lack.
OptionalFields ==
  {"eating_started_at", "accumulated_damage", "accumulated_hunger_decay",
   "accumulated_happiness_decay", "accumulated_energy_decay"}

\* The record d without the fields in S.
Without(d, S) == [k \in DOMAIN d \ S |-> d[k]]

\* The pet as the record without the fields in S describes it: a missing
\* accumulator is 0, a missing eating-start time is none, every other field
\* is that of p.
Defaulted(p, S) ==
  [k \in DOMAIN p |->
     IF k \in S THEN (IF k = "eating_started_at" THEN None ELSE 0) ELSE p[k]]

\* C22, as claimed: from_dict on the record of any reached pet with any of
\* the five optional fields removed yields a pet whose missing accumulators
\* are 0, whose missing eating-start time is none, and whose other fields
\* are those of the record unchanged.  (The stats of the record are
\* bounded on loading, and play() can leave hunger below 0.)
C22_MissingFields ==
  \A S \in SUBSET OptionalFields :
     from_dict(Without(to_dict(pet), S)) = Defaulted(pet, S)

\* ------------------------------------------------- C23: a DOG and a CAT
\* Two pets side by side: pet is a new DOG, rival a new CAT, and every
\* update() of the one is followed at the same instant by an update() of
\* the other.  Neither receives an action.
InitRace ==
  /\ pet = NewPet("DOG", 0)
  /\ rival = NewPet("CAT", 0)
  /\ NoSession
  /\ now = 0
  /\ calls = 0
  /\ op = "new"
  /\ events = <<>>
  /\ result = ""
  /\ snap = pet

\* update() of the one, then update() of the other at the same instant.
\* The roundings of the two are independent.  Both are moved by the same
\* draw, so that they walk side by side: _move() reads and writes position
\* and direction only, which no stat depends on.
UpdateBoth ==
  /\ calls < MaxCalls
  /\ \E flip \in BOOLEAN, step \in 0..2,
        low \in Roundings(pet, now), lowr \in Roundings(rival, now) :
       LET r == update(pet, now, flip, step, low)
           q == update(rival, now, flip, step, lowr)
       IN  /\ pet' = r.pet
           /\ events' = r.events
           /\ rival' = q.pet
  /\ op' = "update"
  /\ result' = ""
  /\ calls' = calls + 1
  /\ UNCHANGED <<now, snap, engine, save_file, added>>

NextRace == Tick \/ UpdateBoth

SpecRace == InitRace /\ [][NextRace]_vars

\* Both pets have been updated up to the same instant elapsed seconds after
\* their creation.
Raced(elapsed) ==
  /\ op = "update"
  /\ pet.last_update = rival.last_update
  /\ pet.last_update - pet.created_at = elapsed * TicksPerSecond

\* C23, as claimed: the DOG's hunger is never higher than the CAT's, and
\* strictly lower after every equal elapsed time of at least 1 s while the
\* CAT's hunger is above 0.
C23_DogHungrierAsClaimed ==
  /\ pet.hunger <= rival.hunger
  /\ \A e \in 1..MaxTime :
       Raced(e) /\ rival.hunger > 0 => pet.hunger < rival.hunger

\* C23, amended: the DOG's hunger is never higher than the CAT's, and it is
\* strictly lower after every equal elapsed time of more than 1 s while
\* the CAT's hunger is above 0.  (After exactly 1 s the two can be equal.)
C23_DogHungrier ==
  /\ pet.hunger <= rival.hunger
  /\ \A e \in 2..MaxTime :
       Raced(e) /\ rival.hunger > 0 => pet.hunger < rival.hunger

\* Both pets have been updated twice, the second time 3 s after their
\* creation, and the DOG is the hungrier one.
C23_DogBehindAfterThree ==
  /\ Raced(3) /\ calls = 2
  /\ rival.hunger > 0 /\ pet.hunger < rival.hunger

\* ------------------------------------------------- C24: neglect is fatal
\* A pet that receives nothing but update() calls, each after a positive
\* elapsed time: the engine's loop without key presses, which runs while
\* the pet is alive.
\* Four pets close to death, each reached by the code from a new pet through
\* updates and actions: a DOG that is only starving, a CAT asleep, a DRAGON
\* at its meal and a DOG that is only unhappy.
SavedStarvingDog ==
  [name |-> "Pet", pet_type |-> "DOG", hunger |-> 0, happiness |-> 46, energy |-> 30, health |-> 3, age |-> 38, level |-> 1, state |-> "SICK", position |-> 50, direction |-> 1, created_at |-> -38, last_update |-> 0, eating_started_at |-> <<>>, accumulated_damage |-> 0, accumulated_hunger_decay |-> 0, accumulated_happiness_decay |-> 0, accumulated_energy_decay |-> 0]

SavedFadingCat ==
  [name |-> "Pet", pet_type |-> "CAT", hunger |-> 0, happiness |-> 6, energy |-> 40, health |-> 6, age |-> 50, level |-> 1, state |-> "SLEEPING", position |-> 50, direction |-> 1, created_at |-> -50, last_update |-> 0, eating_started_at |-> <<>>, accumulated_damage |-> 0, accumulated_hunger_decay |-> 0, accumulated_happiness_decay |-> 0, accumulated_energy_decay |-> 8]

SavedLastMealDragon ==
  [name |-> "Pet", pet_type |-> "DRAGON", hunger |-> 24, happiness |-> 60, energy |-> 0, health |-> 6, age |-> 30, level |-> 1, state |-> "EATING", position |-> 50, direction |-> 1, created_at |-> -30, last_update |-> 0, eating_started_at |-> <<0>>, accumulated_damage |-> 0, accumulated_hunger_decay |-> 0, accumulated_happiness_decay |-> 0, accumulated_energy_decay |-> 0]

SavedMopingDog ==
  [name |-> "Pet", pet_type |-> "DOG", hunger |-> 18, happiness |-> 0, energy |-> 41, health |-> 3, age |-> 46, level |-> 1, state |-> "SICK", position |-> 50, direction |-> 1, created_at |-> -46, last_update |-> 0, eating_started_at |-> <<>>, accumulated_damage |-> 0, accumulated_hunger_decay |-> 0, accumulated_happiness_decay |-> 0, accumulated_energy_decay |-> 0]

NeglectedPets ==
  {SavedDyingDog, SavedStarvingDog, SavedFadingCat, SavedLastMealDragon, SavedMopingDog}

InitNeglect ==
  /\ pet \in NeglectedPets
  /\ rival = NewPet("CAT", 0)
  /\ NoSession
  /\ now = 0
  /\ calls = 0
  /\ op = "new"
  /\ events = <<>>
  /\ result = ""
  /\ snap = pet

\* The loop runs while the pet is alive, and time passes between two of
\* its rounds.
Elapse ==
  /\ is_alive(pet)
  /\ now' \in (now + 1)..(now + MaxTime)

\* One round of the loop: time passes, then update().
Neglect ==
  /\ Elapse
  /\ \E flip \in BOOLEAN, step \in 0..2, low \in Roundings(pet, now') :
       LET r == update(pet, now', flip, step, low)
       IN  /\ pet' = r.pet
           /\ events' = r.events
  /\ op' = "update"
  /\ result' = ""
  /\ UNCHANGED <<calls, snap, rival, engine, save_file, added>>

\* The loop does not stop while the pet is alive: weak fairness of the
\* passage of time, which only a round of the loop brings about.
SpecNeglect == InitNeglect /\ [][Neglect]_vars /\ WF_now(Elapse)

\* The pet has died: no health left and mood DEAD.
Died == pet.health = 0 /\ pet.state = "DEAD"

\* The last update() came at least secs seconds after the start.
Elapsed(secs) == op = "update" /\ pet.last_update >= secs * TicksPerSecond

\* C24, as claimed: a pet left to update() calls alone dies in the end, and
\* one whose hunger is 0 at the start has died once ceil(health/3) seconds
\* have elapsed.
C24_NeglectIsFatalAsClaimed ==
  /\ [](snap.hunger = 0 /\ Elapsed(CeilDiv(snap.health, 3)) => Died)
  /\ <>Died

\* C24, amended: a pet left to update() calls alone dies in the end, and one
\* whose hunger is 0 at the start has died once more than health/3 seconds
\* have elapsed, that is after at most ceil((health + 1)/3) seconds.
C24_NeglectIsFatal ==
  /\ [](snap.hunger = 0 /\ Elapsed(CeilDiv(snap.health + 1, 3)) => Died)
  /\ <>Died

\* The DOG that was only starving, with 3 health, has died in its second
\* update(), 2 s after the start.
C24_StarvedInTwoSeconds ==
  /\ snap = SavedStarvingDog /\ Died
  /\ pet.last_update = 2 * TicksPerSecond /\ pet.age = snap.age + 2

\* ------------------------------------------- C25: messages of a starving pet
Has(evs, e) == \E i \in DOMAIN evs : evs[i] = e

\* update() on a live pet whose hunger is 0, after a positive elapsed time.
UpdateWhileStarved ==
  /\ Called /\ op' = "update"
  /\ is_alive(pet) /\ pet.hunger = 0
  /\ now > pet.last_update

C26_HealthOverGap ==
  [][(Called /\ op' = "update" /\ is_alive(snap) /\ snap.state # "SLEEPING") =>
       \A single \in SingleCall : Dist(single.health, pet'.health) <= 1]_vars

\* ------------------------------------------------ C27: order of refusals
\* The refusal the first failing precondition of action a gives on pet p,
\* in the order dead, EATING, SLEEPING (play only), stat threshold;
\* wake_up() has the one precondition that the pet is SLEEPING.  "" when
\* no precondition fails.
FirstRefusal(a, p) ==
  IF a = "wake_up" THEN (IF p.state # "SLEEPING" THEN "not sleeping" ELSE "")
  ELSE IF ~is_alive(p)
    THEN CASE a = "feed" -> "Cannot feed a dead pet"
           [] a = "play" -> "Cannot play with a dead pet"
           [] a = "sleep" -> "Cannot put a dead pet to sleep"
           [] a = "heal" -> "Cannot heal a dead pet"
  ELSE IF p.state = "EATING"
    THEN (IF a = "feed" THEN "already eating" ELSE "busy eating")
  ELSE IF a = "play" /\ p.state = "SLEEPING" THEN "is sleeping"
  ELSE IF a = "feed" /\ p.hunger >= 95 THEN "not hungry"
  ELSE IF a = "play" /\ p.energy < 20 THEN "too tired to play"
  ELSE IF a = "sleep" /\ p.energy >= 95 THEN "not tired"
  ELSE IF a = "heal" /\ p.health >= 95 THEN "is healthy"
  ELSE ""

\* C27: an action is refused iff one of its preconditions fails, the
\* refusal is that of the first failing one in the order dead, EATING,
\* SLEEPING (play only), stat threshold, and a refused action leaves the
\* pet as it was.
C27_RefusalOrder ==
  [][(Called /\ op' \in Actions) =>
       /\ IF FirstRefusal(op', pet) # ""
            THEN result' = FirstRefusal(op', pet)
            ELSE result' \notin Refusals
       /\ result' \in Refusals => pet' = pet]_vars

\* feed() was refused on an EATING pet whose hunger is 95 or more, as
\* already eating and not as not hungry.
C27_AlreadyEatingFirst ==
  /\ op = "feed" /\ result = "already eating"
  /\ is_alive(pet) /\ pet.state = "EATING" /\ pet.hunger >= 95

\* ---------------------------------------------------- C28: order of events
\* The place of an event in the order finished-eating, starving, exhausted,
\* suffering, woke-up.
Rank(e) ==
  CASE e = "finished eating" -> 1
    [] e = "starving" -> 2
    [] e = "exhausted" -> 3
    [] e = "suffering" -> 4
    [] e = "woke up refreshed" -> 5

\* The events are in that order, none of them twice.
InOrder(evs) ==
  \A i, j \in DOMAIN evs : i < j => Rank(evs[i]) < Rank(evs[j])

\* Four of the saved pets under each of the names.
NamedPets ==
  {[p EXCEPT !.name = n] :
     p \in {SavedEatingDragon, SavedExhaustedDog, SavedSleepingCat, SavedSadAlien},
     n \in PetNames}

InitNamed ==
  /\ pet \in NamedPets
  /\ now = 0
  /\ calls = 0
  /\ op = "new"
  /\ events = <<>>
  /\ result = ""
  /\ snap = pet
  /\ rival = NewPet("CAT", 0)
  /\ NoSession

SpecNamed == InitNamed /\ [][Next]_vars

\* C28, as claimed: the events of one update() are in the order
\* finished-eating, starving, exhausted, suffering, woke-up, each at most
\* once, and the suffering event is among them iff the call took 1 or more
\* from health and returned neither the starving nor the exhausted event.
\* (The code looks for the two words in the texts of the events, which
\* begin with the pet's name.)
C28_EventOrder ==
  [][(Called /\ op' = "update") =>
       /\ InOrder(events')
       /\ Has(events', "suffering") <=>
            /\ pet'.health < pet.health
            /\ ~Has(events', "starving")
            /\ ~Has(events', "exhausted")]_vars

\* ------------------------------------------- C29: what the actions leave
\* The fields of time and place.
Untouched(p, q) ==
  /\ q.last_update = p.last_update
  /\ q.age = p.age
  /\ q.accumulated_damage = p.accumulated_damage
  /\ q.accumulated_hunger_decay = p.accumulated_hunger_decay
  /\ q.accumulated_happiness_decay = p.accumulated_happiness_decay
  /\ q.accumulated_energy_decay = p.accumulated_energy_decay
  /\ q.position = p.position
  /\ q.direction = p.direction

\* The hunger a pet has left, in tenths, with what its accumulator holds
\* taken off.
HungerLeft(p) == p.hunger * AccOne - p.accumulated_hunger_decay

\* C29: no action changes the last-update time, age, the four accumulators,
\* position or direction; the last-update time changes only in an update()
\* on a live pet, which sets it to the present time and decays hunger for
\* exactly the time between the old and the new last-update time (as long
\* as hunger stays above 0), so that the times consumed by successive
\* update() calls add up to the time between the first and the last; an
\* update() on a dead pet leaves the last-update time alone.
C29_Frame ==
  [][/\ (Called /\ op' \in Actions) => Untouched(pet, pet')
     /\ pet'.last_update # pet.last_update =>
          Called /\ op' = "update" /\ is_alive(pet)
     /\ (Called /\ op' = "update") =>
          IF is_alive(pet)
            THEN /\ pet'.last_update = now
                 /\ pet'.age = (now - pet.created_at) \div TicksPerSecond
                 /\ pet'.hunger > 0 =>
                      HungerLeft(pet) - HungerLeft(pet')
                        = HungerAccrual(pet, pet'.last_update - pet.last_update)
            ELSE pet'.last_update = pet.last_update]_vars

\* A pet was updated after the start and, later than that, an action
\* changed it: its last-update time is still that of the update().
C29_ActedBetweenUpdates ==
  /\ calls = 2 /\ op \in Actions /\ result \notin Refusals
  /\ snap.last_update < pet.last_update /\ pet.last_update < now

\* --------------------------------------------- C30: range of accumulators
\* The accumulators of a pet.
Accumulators(p) ==
  {p.accumulated_hunger_decay, p.accumulated_happiness_decay,
   p.accumulated_energy_decay, p.accumulated_damage}

\* C30: after every operation each of the four accumulators is >= 0 and
\* < 1.  In tenths that is 0..AccOne, where the stored value AccOne stands
\* for a fraction just below 1.0 (see Settle).
C30_AccumulatorsInRange == \A a \in Accumulators(pet) : a >= 0 /\ a <= AccOne

\* A new CAT after two update() calls, the second later than the first: its
\* happiness accumulator carries a fraction strictly between 0 and 1.
C30_FractionKept ==
  /\ snap = NewPet("CAT", 0) /\ calls = 2 /\ op = "update"
  /\ pet.last_update >= 2
  /\ pet.accumulated_happiness_decay > 0
  /\ pet.accumulated_happiness_decay < AccOne

\* ------------------------------------------- C31: the eating-start time
\* C31: a pet whose mood is EATING has an eating-start time, and a pet that
\* has an eating-start time is EATING or DEAD.
C31_EatingTimestamp ==
  /\ pet.state = "EATING" => pet.eating_started_at # None
  /\ pet.eating_started_at # None => pet.state \in {"EATING", "DEAD"}

\* A pet died at its meal: it is DEAD and still has its eating-start time.
C31_DiedWithTimestamp ==
  /\ pet.state = "DEAD" /\ pet.eating_started_at # None
  /\ op = "update"

\* ------------------------------------------------ C32: health only falls
\* C32: feed(), play(), sleep() and wake_up() leave health as it was,
\* update() leaves it equal or lower, heal() never lowers it, and health
\* rises only in a heal() that is not refused.
C32_HealthMonotone ==
  [][Called =>
       /\ op' \in {"feed", "play", "sleep", "wake_up"} => pet'.health = pet.health
       /\ op' = "update" => pet'.health <= pet.health
       /\ op' = "heal" => pet'.health >= pet.health
       /\ pet'.health > pet.health => op' = "heal" /\ result' = "Healed"
       /\ pet'.health < pet.health => op' = "update"]_vars

\* An update() took from the health of a pet and the heal() after it gave
\* back more than was taken.
C32_HealedAfterLoss ==
  /\ calls = 2 /\ op = "heal" /\ result = "Healed"
  /\ pet.last_update > snap.last_update
  /\ pet.health > snap.health

\* ============================================ the game loop (game/engine.py)
\* GameEngine._add_event: append the event, then keep the last 10.
add_event_keeps_first(evs, e) ==
  LET a == Append(evs, e)
  IN  IF Len(a) > 10 THEN SubSeq(a, 1, 10) ELSE a

add_event(evs, e) ==
  LET a == Append(evs, e)
  IN  IF Len(a) > 10 THEN SubSeq(a, Len(a) - 9, Len(a)) ELSE a

\* `for event in pet_events: self._add_event(event)`
RECURSIVE add_events(_, _)
add_events(evs, es) ==
  IF es = <<>> THEN evs ELSE add_events(add_event(evs, Head(es)), Tail(es))

\* SaveManager.save and SaveManager.delete_save, as the new content of the
\* save file.  The file system is taken to work: open, json.dump and unlink
\* raise nothing, so both calls return True.
save(p) == Some(to_dict(p))
delete_save == None

\* The keys of a round of the loop: "" is no key (getch returned -1) or a key
\* without a command; Enter on the action menu gives the same five commands.
Keys == {"", "f", "p", "s", "h", "q"}

\* GameEngine._handle_command for the four commands that call the pet.
handle_command(p, t, command) ==
  CASE command = "f" -> feed(p, t)
    [] command = "p" -> play(p)
    [] command = "s" -> IF p.state = "SLEEPING" THEN wake_up(p) ELSE sleep(p)
    [] command = "h" -> heal(p)

\* At most MaxRounds rounds of the loop are followed.  A round takes one of
\* RoundTicks: less than a second (getch waits 50 ms, the round sleeps 50 ms),
\* a second, or half a minute (a suspended process resumes).
MaxRounds == 2
RoundTicks == {0, 1, 30}
AUTOSAVE == 30 * TicksPerSecond

\* DOG: SavedDyingDog, one update 2 s later: the pet a save file holds when it
\* was written after the death.
SavedDeadDog ==
  [name |-> "Pet", pet_type |-> "DOG", hunger |-> 0, happiness |-> 0, energy |-> 0, health |-> 0, age |-> 70, level |-> 1, state |-> "DEAD", position |-> 50, direction |-> 1, created_at |-> -70, last_update |-> 0, eating_started_at |-> <<>>, accumulated_damage |-> 0, accumulated_hunger_decay |-> 0, accumulated_happiness_decay |-> 0, accumulated_energy_decay |-> 0]

\* The pets main() hands to the engine: loaded from the save file, or new
\* (no save file then).
LoadedPets == NeglectedPets \cup {SavedDeadDog}

Welcome == "Welcome back"

\* GameEngine(pet, stdscr) and the first lines of run(): the three clocks are
\* set, running is True and the welcome event is logged.
InitEngine ==
  /\ \/ pet \in LoadedPets /\ save_file = save(pet)
     \/ pet = NewPet("CAT", 0) /\ save_file = None
  /\ rival = NewPet("CAT", 0)
  /\ now = 0
  /\ calls = 0
  /\ op = "run"
  /\ events = <<>>
  /\ result = ""
  /\ snap = pet
  /\ engine = [pc |-> "loop", running |-> TRUE, events |-> add_event(<<>>, Welcome),
               last_autosave |-> now, last_update |-> now]
  /\ added = <<Welcome>>

\* One round of `while self.running and self.pet.is_alive` (l.41-76):
\* update() when a second has passed, the autosave when 30 s have passed,
\* then the key.  q is _save_and_quit: the pet is saved and running cleared.
Iterate ==
  /\ engine.pc = "loop" /\ engine.running /\ is_alive(pet)
  /\ calls < MaxRounds
  /\ \E d \in RoundTicks, key \in Keys, flip \in BOOLEAN, step \in 0..2 :
     \E low \in Roundings(pet, now + d) :
       LET current_time == now + d
           due == current_time - engine.last_update >= TicksPerSecond
           autosave == current_time - engine.last_autosave >= AUTOSAVE
           called == key \in {"f", "p", "s", "h"}
       IN  \E u \in {IF due THEN update(pet, current_time, flip, step, low)
                            ELSE [pet |-> pet, events |-> <<>>]} :
           \E c \in {IF called THEN handle_command(u.pet, current_time, key)
                               ELSE [pet |-> u.pet, result |-> ""]} :
           \E said \in {u.events \o (IF called THEN <<c.result>> ELSE <<>>)} :
             /\ now' = current_time
             /\ pet' = c.pet
             /\ events' = u.events
             /\ result' = c.result
             /\ engine' = [engine EXCEPT
                             !.events = add_events(@, said),
                             !.last_update = IF due THEN current_time ELSE @,
                             !.last_autosave = IF autosave THEN current_time ELSE @,
                             !.running = key # "q"]
             /\ save_file' = IF key = "q" \/ autosave THEN save(u.pet) ELSE save_file
             /\ added' = added \o said
  /\ op' = "round"
  /\ calls' = calls + 1
  /\ UNCHANGED <<snap, rival>>

\* The loop condition fails: the death screen for a dead pet (l.79-84), the
\* end of run() for a live one.
LoopExit ==
  /\ engine.pc = "loop" /\ ~(engine.running /\ is_alive(pet))
  /\ engine' = [engine EXCEPT !.pc = IF is_alive(pet) THEN "done" ELSE "over"]
  /\ UNCHANGED <<pet, now, calls, op, events, result, snap, rival, save_file, added>>

\* After the 3 s of the death screen the save file is deleted (l.84-85).
GameOver ==
  /\ engine.pc = "over"
  /\ now' = now + 3 * TicksPerSecond
  /\ save_file' = delete_save
  /\ engine' = [engine EXCEPT !.pc = "done"]
  /\ UNCHANGED <<pet, calls, op, events, result, snap, rival, added>>

\* Ctrl-C inside the try block of run(), the loop and the death screen
\* (curses leaves the terminal's interrupt key on): the handler logs the
\* event and calls _save_and_quit (l.87-89).
Interrupt ==
  /\ engine.pc \in {"loop", "over"}
  /\ engine' = [engine EXCEPT !.events = add_event(@, "Game interrupted!"),
                              !.running = FALSE, !.pc = "done"]
  /\ save_file' = save(pet)
  /\ added' = Append(added, "Game interrupted!")
  /\ op' = "interrupt"
  /\ UNCHANGED <<pet, now, calls, events, result, snap, rival>>

NextEngine == Iterate \/ LoopExit \/ GameOver \/ Interrupt

SpecEngine == InitEngine /\ [][NextEngine]_vars

\* -------------------------------------------- C33: the save file at exit
\* C33: when run() has returned, a dead pet has no save file left (it was
\* deleted after every save of the session), and a live pet, whose loop ended
\* through quit, has a save file that holds it.
C33_SaveAtExit ==
  engine.pc = "done" =>
    /\ ~is_alive(pet) => save_file = None
    /\ is_alive(pet) => save_file = save(pet)

\* The same statement for the exits no Ctrl-C brought about: the loop ended
\* through the q key or through the death of the pet.
C33_UninterruptedExit ==
  engine.pc = "done" /\ op # "interrupt" =>
    /\ ~is_alive(pet) => save_file = None
    /\ is_alive(pet) => save_file = save(pet)

\* ------------------------------------------------ C34: the event log
\* The log on its own: an engine just constructed (no event yet) and calls of
\* _add_event with texts of LogEvents, up to MaxAdded calls.
MaxAdded == 12
LogEvents == {"Pet is starving!", "Yum!"}

InitLog ==
  /\ pet = NewPet("CAT", 0)
  /\ rival = NewPet("CAT", 0)
  /\ now = 0
  /\ calls = 0
  /\ op = "new"
  /\ events = <<>>
  /\ result = ""
  /\ snap = pet
  /\ engine = [pc |-> "loop", running |-> FALSE, events |-> <<>>,
               last_autosave |-> now, last_update |-> now]
  /\ save_file = None
  /\ added = <<>>

AddEvent ==
  /\ Len(added) < MaxAdded
  /\ \E e \in LogEvents :
       /\ engine' = [engine EXCEPT !.events = add_event(@, e)]
       /\ added' = Append(added, e)
  /\ UNCHANGED <<pet, now, calls, op, events, result, snap, rival, save_file>>

SpecLog == InitLog /\ [][AddEvent]_vars

\* The last k elements of s, in their order.
LastOf(s, k) == SubSeq(s, Len(s) - k + 1, Len(s))

\* C34: the log never holds more than 10 events, and after n calls of
\* _add_event it is the last min(n, 10) events handed to it, in the order of
\* the calls.
C34_LastTenEvents ==
  /\ Len(engine.events) <= 10
  /\ engine.events = LastOf(added, Min(Len(added), 10))

\* Twelve events were added, the first two different from the last two: the
\* log has dropped the oldest two and kept ten.
C34_OldestDropped ==
  /\ Len(added) = 12 /\ Len(engine.events) = 10
  /\ added[1] # added[11] /\ added[2] # added[12]
  /\ engine.events[1] = added[3] /\ engine.events[10] = added[12]

\* --------------------------------------------------- C35: the walk
\* Pets that have walked from position 50 to the edges of the screen; each is
\* the state the code reaches from a new pet by the calls named in its
\* comment (the random draws of _move chosen as named).
\* CAT: twenty update() calls in the first second, each a step of 2 to the right.
WalkedToRightEdge ==
  [name |-> "Pet", pet_type |-> "CAT", hunger |-> 100, happiness |-> 100, energy |-> 100, health |-> 100, age |-> 0, level |-> 1, state |-> "HAPPY", position |-> 90, direction |-> -1, created_at |-> 0, last_update |-> 0, eating_started_at |-> <<>>, accumulated_damage |-> 0, accumulated_hunger_decay |-> 0, accumulated_happiness_decay |-> 0, accumulated_energy_decay |-> 0]

\* DOG: nineteen such calls: two short of the right edge.
WalkedNearRightEdge ==
  [name |-> "Pet", pet_type |-> "DOG", hunger |-> 100, happiness |-> 100, energy |-> 100, health |-> 100, age |-> 0, level |-> 1, state |-> "HAPPY", position |-> 88, direction |-> 1, created_at |-> 0, last_update |-> 0, eating_started_at |-> <<>>, accumulated_damage |-> 0, accumulated_hunger_decay |-> 0, accumulated_happiness_decay |-> 0, accumulated_energy_decay |-> 0]

\* BUNNY: the direction changed on the first call, then as above to the left.
WalkedToLeftEdge ==
  [name |-> "Pet", pet_type |-> "BUNNY", hunger |-> 100, happiness |-> 100, energy |-> 100, health |-> 100, age |-> 0, level |-> 1, state |-> "HAPPY", position |-> 10, direction |-> 1, created_at |-> 0, last_update |-> 0, eating_started_at |-> <<>>, accumulated_damage |-> 0, accumulated_hunger_decay |-> 0, accumulated_happiness_decay |-> 0, accumulated_energy_decay |-> 0]

\* ALIEN: nineteen steps of 2 to the left and one of 1: one short of the left edge.
WalkedNearLeftEdge ==
  [name |-> "Pet", pet_type |-> "ALIEN", hunger |-> 100, happiness |-> 100, energy |-> 100, health |-> 100, age |-> 0, level |-> 1, state |-> "HAPPY", position |-> 11, direction |-> -1, created_at |-> 0, last_update |-> 0, eating_started_at |-> <<>>, accumulated_damage |-> 0, accumulated_hunger_decay |-> 0, accumulated_happiness_decay |-> 0, accumulated_energy_decay |-> 0]

\* CAT: at the right edge, play() and sleep().
AsleepAtRightEdge ==
  [name |-> "Pet", pet_type |-> "CAT", hunger |-> 90, happiness |-> 100, energy |-> 85, health |-> 100, age |-> 0, level |-> 1, state |-> "SLEEPING", position |-> 90, direction |-> -1, created_at |-> 0, last_update |-> 0, eating_started_at |-> <<>>, accumulated_damage |-> 0, accumulated_hunger_decay |-> 0, accumulated_happiness_decay |-> 0, accumulated_energy_decay |-> 0]

\* DRAGON: two short of the left edge, then play() and feed().
EatingNearLeftEdge ==
  [name |-> "Pet", pet_type |-> "DRAGON", hunger |-> 100, happiness |-> 100, energy |-> 85, health |-> 100, age |-> 0, level |-> 1, state |-> "EATING", position |-> 12, direction |-> -1, created_at |-> 0, last_update |-> 0, eating_started_at |-> <<0>>, accumulated_damage |-> 0, accumulated_hunger_decay |-> 0, accumulated_happiness_decay |-> 0, accumulated_energy_decay |-> 0]

WalkedPets ==
  {WalkedToRightEdge, WalkedNearRightEdge, WalkedToLeftEdge, WalkedNearLeftEdge,
   AsleepAtRightEdge, EatingNearLeftEdge}

InitWalk ==
  /\ pet \in WalkedPets
  /\ now = 0
  /\ calls = 0
  /\ op = "new"
  /\ events = <<>>
  /\ result = ""
  /\ snap = pet
  /\ rival = NewPet("CAT", 0)
  /\ NoSession

SpecWalk == InitWalk /\ [][Next]_vars

\* C35: position stays within [10, 90] and direction is -1 or 1; an update()
\* moves the pet by at most 2, leaves it with direction 1 at position 10 and
\* with direction -1 at position 90, and does not move or turn a pet it
\* leaves SLEEPING, EATING or DEAD.
C35_Walk ==
  /\ [](/\ pet.position \in BOUNCE_LEFT_EDGE..BOUNCE_RIGHT_EDGE
        /\ pet.direction \in {-1, 1})
  /\ [][Called /\ op' = "update" =>
          /\ Dist(pet'.position, pet.position) <= 2
          /\ pet'.position = BOUNCE_LEFT_EDGE => pet'.direction = 1
          /\ pet'.position = BOUNCE_RIGHT_EDGE => pet'.direction = -1
          /\ pet'.state \in {"SLEEPING", "EATING", "DEAD"} =>
               /\ pet'.position = pet.position
               /\ pet'.direction = pet.direction]_vars

\* A pet two short of the right edge walked into it and was turned round.
C35_Bounced ==
  /\ op = "update" /\ calls = 1
  /\ snap.position = BOUNCE_RIGHT_EDGE - 2 /\ snap.direction = 1
  /\ pet.position = BOUNCE_RIGHT_EDGE /\ pet.direction = -1

====
